---- MODULE Spec2Model ----
(***************************************************************************)
(* A model of the CHIP-8 interpreter of src/src/main.rs: the Emulator      *)
(* struct, the stack helpers, the ROM load, the instruction fetch and      *)
(* decode, and every arm of execute_op_code.                               *)
(*                                                                         *)
(* The functions of the source take the emulator by reference and change   *)
(* it in place; here each is an operator from an emulator record to the    *)
(* emulator record it leaves behind.  A Rust panic is the field panic of   *)
(* that record: the statements after the panicking one do not run, the     *)
(* writes before it stay.                                                  *)
(***************************************************************************)
EXTENDS Integers, Sequences, FiniteSets, TLC

VARIABLES
    v_registers,            \* [u8; 16]
    v_f_register,           \* u8, never written after construction
    i_register,             \* u16
    program_counter,        \* u16
    stack_pointer,          \* u8
    stack,                  \* [u16; 16]
    delay_timer_registry,   \* usize
    sound_timer_registry,   \* usize
    ram,                    \* [u8; 4096], kept as its non-zero cells
    panic,                  \* "none", or the message of the panic that ended the run
    overflow_checks,        \* the build: TRUE = debug profile, FALSE = release
    loaded,                 \* load_rom_to_memory has returned
    op_code,                \* the decoded instruction last handed to execute_op_code
    fetched,                \* that instruction came from get_op_code
    prev,                   \* the emulator as it was before that instruction
    steps,                  \* instructions handed to execute_op_code so far
    jumps,                  \* of these, JP nnn instructions
    call_sites,             \* the calls not yet returned from, oldest first
    matched,                \* the call the last instruction, a RET, returned from
    rom,                    \* the image handed to load_rom_to_memory
    stored,                 \* the last Fx55 and the registers it stored, while
                            \* only immediates have been loaded since
    timer_set,              \* the value last written to the delay timer
    ticks                   \* sixtieths of a second gone by since that write

vars == <<v_registers, v_f_register, i_register, program_counter, stack_pointer,
          stack, delay_timer_registry, sound_timer_registry, ram, panic,
          overflow_checks, loaded, op_code, fetched, prev, steps, jumps,
          call_sites, matched, rom, stored, timer_set, ticks>>

----------------------------------------------------------------------------
(* Program constants.                                                      *)

V_REGISTERS_NUMBER == 16
STACK_SIZE == 16
RAM_SIZE == 4096
INITIAL_ADDRESS == 512
U8 == 256
U16 == 65536

(* Bounds of the model.                                                    *)

MaxSteps == 3           \* instructions per run of Spec
MaxAluSteps == 3        \* instructions per run of SpecAlu
MaxStackSteps == 34     \* instructions per run of SpecStack
MaxJumps == 1           \* JP nnn instructions per run of SpecStack
MaxFetchSteps == 20     \* instructions per run of SpecFetch
MaxMemSteps == 4        \* instructions per run of SpecMem
MaxLoadSteps == 20      \* instructions per run of SpecLoad
MaxTimerSteps == 3      \* instructions per run of SpecTimer
MaxTicks == 7           \* sixtieths of a second per run of SpecTimer

NoPanic == "none"
IndexOutOfBounds == "index out of bounds"
AddOverflow == "attempt to add with overflow"
SubtractOverflow == "attempt to subtract with overflow"
RangeEnd == "range end index out of range for slice"
NotImplemented == "not implemented"

----------------------------------------------------------------------------
(* Bit operations on bytes.                                                *)

RECURSIVE BitOp(_, _, _, _)
BitOp(f, a, b, n) ==
    IF n = 0 THEN 0
    ELSE f[a % 2][b % 2] + 2 * BitOp(f, a \div 2, b \div 2, n - 1)

BitOr(a, b) == BitOp([p \in 0..1 |-> [q \in 0..1 |-> IF p + q > 0 THEN 1 ELSE 0]], a, b, 8)
BitAnd(a, b) == BitOp([p \in 0..1 |-> [q \in 0..1 |-> p * q]], a, b, 8)
BitXor(a, b) == BitOp([p \in 0..1 |-> [q \in 0..1 |-> (p + q) % 2]], a, b, 8)

(* ram is held as the function from its non-zero addresses to their bytes. *)
ReadRam(r, a) == IF a \in DOMAIN r THEN r[a] ELSE 0
WriteRam(r, a, b) ==
    LET keep == DOMAIN r \ {a}
    IN  IF b = 0 THEN [c \in keep |-> r[c]]
        ELSE [c \in keep \cup {a} |-> IF c = a THEN b ELSE r[c]]

----------------------------------------------------------------------------
(* The Emulator struct as one record, with the panic that ended the run.   *)

Emulator ==
    [v_registers |-> v_registers, v_f_register |-> v_f_register,
     i_register |-> i_register, program_counter |-> program_counter,
     stack_pointer |-> stack_pointer, stack |-> stack,
     delay_timer_registry |-> delay_timer_registry,
     sound_timer_registry |-> sound_timer_registry,
     ram |-> ram, panic |-> panic]

Panicked(e, message) == [e EXCEPT !.panic = message]

(* u8 and u16 arithmetic: an overflow panics in a build with overflow      *)
(* checks and wraps in one without.                                        *)
Overflows(value, width) == value < 0 \/ value >= width
Wrapped(value, width) == value % width

pop_from_stack(e) ==
    LET pointer == e.stack_pointer - 1
    IN  IF Overflows(pointer, U8) /\ overflow_checks
        THEN [emulator |-> Panicked(e, SubtractOverflow), element |-> 0]
        ELSE LET e1 == [e EXCEPT !.stack_pointer = Wrapped(pointer, U8)]
             IN  IF e1.stack_pointer >= STACK_SIZE
                 THEN [emulator |-> Panicked(e1, IndexOutOfBounds), element |-> 0]
                 ELSE [emulator |-> [e1 EXCEPT !.stack[e1.stack_pointer] = 0],
                       element |-> e1.stack[e1.stack_pointer]]

(* push_to_stack with the pointer moved before the slot is written *)
push_to_stack_pointer_first(e, element) ==
    LET e1 == [e EXCEPT !.stack_pointer = Wrapped(e.stack_pointer + 1, U8)]
    IN  IF e.stack_pointer >= STACK_SIZE
        THEN Panicked(e1, IndexOutOfBounds)
        ELSE [e1 EXCEPT !.stack[e.stack_pointer] = element]

push_to_stack(e, element) ==
    IF e.stack_pointer >= STACK_SIZE
    THEN Panicked(e, IndexOutOfBounds)
    ELSE LET e1 == [e EXCEPT !.stack[e.stack_pointer] = element]
             pointer == e1.stack_pointer + 1
         IN  IF Overflows(pointer, U8) /\ overflow_checks
             THEN Panicked(e1, AddOverflow)
             ELSE [e1 EXCEPT !.stack_pointer = Wrapped(pointer, U8)]

(* data is a sequence of bytes; the slice ram[start..end] panics when end  *)
(* lies beyond the array, before any byte is copied.                       *)
(* load_rom_to_memory with an image that ends at the end of ram refused *)
load_rom_to_memory_end_refused(e, data) ==
    LET start == INITIAL_ADDRESS
        end == INITIAL_ADDRESS + Len(data)
        copied == {a \in start..(end - 1) : data[a - start + 1] # 0}
        kept == DOMAIN e.ram \ (start..(end - 1))
    IN  IF end >= RAM_SIZE THEN Panicked(e, RangeEnd)
        ELSE [e EXCEPT !.ram = [a \in kept \cup copied |->
                                  IF a \in copied THEN data[a - start + 1]
                                  ELSE e.ram[a]]]

load_rom_to_memory(e, data) ==
    LET start == INITIAL_ADDRESS
        end == INITIAL_ADDRESS + Len(data)
        copied == {a \in start..(end - 1) : data[a - start + 1] # 0}
        kept == DOMAIN e.ram \ (start..(end - 1))
    IN  IF end > RAM_SIZE THEN Panicked(e, RangeEnd)
        ELSE [e EXCEPT !.ram = [a \in kept \cup copied |->
                                  IF a \in copied THEN data[a - start + 1]
                                  ELSE e.ram[a]]]

(* The fetch: the instruction word at the program counter, or the panic of *)
(* an index past the end of ram.                                           *)
get_op_code(e) ==
    IF e.program_counter >= RAM_SIZE
    THEN [panic |-> IndexOutOfBounds, op_code |-> 0]
    ELSE IF Overflows(e.program_counter + 1, U16) /\ overflow_checks
    THEN [panic |-> AddOverflow, op_code |-> 0]
    ELSE IF Wrapped(e.program_counter + 1, U16) >= RAM_SIZE
    THEN [panic |-> IndexOutOfBounds, op_code |-> 0]
    ELSE [panic |-> NoPanic,
          op_code |-> ReadRam(e.ram, e.program_counter) * 256
                      + ReadRam(e.ram, Wrapped(e.program_counter + 1, U16))]

parse_op_code(word) ==
    <<(word \div 4096) % 16, (word \div 256) % 16, (word \div 16) % 16, word % 16>>

get_nnn(op) == op[2] * 256 + op[3] * 16 + op[4]
get_x(op) == op[2]
get_kk(op) == op[3] * 16 + op[4]
get_y(op) == op[3]

----------------------------------------------------------------------------
(* The arms of execute_op_code, one operator each, named after the         *)
(* comment that heads the arm in the source.                               *)

(* program_counter += 2 on a u16 *)
SkipNext(e) ==
    IF Overflows(e.program_counter + 2, U16) /\ overflow_checks
    THEN Panicked(e, AddOverflow)
    ELSE [e EXCEPT !.program_counter = Wrapped(e.program_counter + 2, U16)]

NOP(e) == e

RET(e) ==
    LET popped == pop_from_stack(e)
    IN  IF popped.emulator.panic # NoPanic THEN popped.emulator
        ELSE [popped.emulator EXCEPT !.program_counter = popped.element]

JP(e, op) == [e EXCEPT !.program_counter = get_nnn(op)]

CALL(e, op) ==
    LET pushed == push_to_stack(e, e.program_counter)
    IN  IF pushed.panic # NoPanic THEN pushed
        ELSE [pushed EXCEPT !.program_counter = get_nnn(op)]

SKIP_eq_kk(e, op) ==
    IF e.v_registers[get_x(op)] = get_kk(op) THEN SkipNext(e) ELSE e

SKIP_ne_kk(e, op) ==
    IF e.v_registers[get_x(op)] # get_kk(op) THEN SkipNext(e) ELSE e

SKIP_eq_vy(e, op) ==
    IF e.v_registers[get_x(op)] = e.v_registers[get_y(op)] THEN SkipNext(e) ELSE e

PUT_kk(e, op) == [e EXCEPT !.v_registers[get_x(op)] = get_kk(op)]

ADD_kk(e, op) ==
    LET sum == e.v_registers[get_x(op)] + get_kk(op)
    IN  IF Overflows(sum, U8) /\ overflow_checks
        THEN Panicked(e, AddOverflow)
        ELSE [e EXCEPT !.v_registers[get_x(op)] = Wrapped(sum, U8)]

SET_vy(e, op) == [e EXCEPT !.v_registers[get_x(op)] = e.v_registers[get_y(op)]]

OR_vy(e, op) ==
    [e EXCEPT !.v_registers[get_x(op)] =
        BitOr(e.v_registers[get_x(op)], e.v_registers[get_y(op)])]

AND_vy(e, op) ==
    [e EXCEPT !.v_registers[get_x(op)] =
        BitAnd(e.v_registers[get_x(op)], e.v_registers[get_y(op)])]

XOR_vy(e, op) ==
    [e EXCEPT !.v_registers[get_x(op)] =
        BitXor(e.v_registers[get_x(op)], e.v_registers[get_y(op)])]

(* overflowing_add, then the store of the sum, then the flag on overflow only *)
ADD_vy(e, op) ==
    LET vx == e.v_registers[get_x(op)]
        vy == e.v_registers[get_y(op)]
        sum == Wrapped(vx + vy, U8)
        overflow == Overflows(vx + vy, U8)
        e1 == [e EXCEPT !.v_registers[get_x(op)] = sum]
    IN  IF overflow THEN [e1 EXCEPT !.v_registers[15] = 1] ELSE e1

(* overflowing_sub, then the store of the difference, then the flag on borrow only *)
SUB_vy(e, op) ==
    LET vx == e.v_registers[get_x(op)]
        vy == e.v_registers[get_y(op)]
        sub == Wrapped(vx - vy, U8)
        borrow == Overflows(vx - vy, U8)
        e1 == [e EXCEPT !.v_registers[get_x(op)] = sub]
    IN  IF borrow THEN [e1 EXCEPT !.v_registers[15] = 1] ELSE e1

(* SHR with the flag taken from the register after the shift *)
SHR_flag_after_shift(e, op) ==
    LET e1 == [e EXCEPT !.v_registers[get_x(op)] = e.v_registers[get_x(op)] \div 2]
    IN  [e1 EXCEPT !.v_registers[15] = BitAnd(e1.v_registers[get_x(op)], 1)]

SHR(e, op) ==
    LET lsb == BitAnd(e.v_registers[get_x(op)], 1)
        e1 == [e EXCEPT !.v_registers[get_x(op)] = e.v_registers[get_x(op)] \div 2]
    IN  [e1 EXCEPT !.v_registers[15] = lsb]

SUBN_vy(e, op) ==
    LET vx == e.v_registers[get_x(op)]
        vy == e.v_registers[get_y(op)]
        sub == Wrapped(vy - vx, U8)
        borrow == Overflows(vy - vx, U8)
        e1 == [e EXCEPT !.v_registers[get_x(op)] = sub]
    IN  IF borrow THEN [e1 EXCEPT !.v_registers[15] = 1] ELSE e1

(* msb = (v >> 7) & 0xF0; the shift left of a u8 drops the bit shifted out *)
SHL(e, op) ==
    LET msb == BitAnd(e.v_registers[get_x(op)] \div 128, 240)
        e1 == [e EXCEPT !.v_registers[get_x(op)] =
                  (e.v_registers[get_x(op)] * 2) % U8]
    IN  [e1 EXCEPT !.v_registers[15] = msb]

SNE_vy(e, op) ==
    IF e.v_registers[get_x(op)] # e.v_registers[get_y(op)] THEN SkipNext(e) ELSE e

SET_i(e, op) == [e EXCEPT !.i_register = get_nnn(op)]

(* v_registers[0] as u16 + nnn: at most 255 + 4095, no overflow of a u16 *)
JP_v0(e, op) ==
    LET target == e.v_registers[0] + get_nnn(op)
    IN  IF Overflows(target, U16) /\ overflow_checks
        THEN Panicked(e, AddOverflow)
        ELSE [e EXCEPT !.program_counter = Wrapped(target, U16)]

(* rng is the byte thread_rng().gen() returned *)
RND(e, op, rng) == [e EXCEPT !.v_registers[get_x(op)] = BitAnd(rng, get_kk(op))]

SET_vx_delay(e, op) ==
    [e EXCEPT !.v_registers[get_x(op)] = e.delay_timer_registry % U8]

SET_delay(e, op) == [e EXCEPT !.delay_timer_registry = e.v_registers[get_x(op)]]

SET_sound(e, op) == [e EXCEPT !.sound_timer_registry = e.v_registers[get_x(op)]]

ADD_i(e, op) ==
    [e EXCEPT !.i_register = (e.i_register + e.v_registers[get_x(op)]) % U16]

(* One indexed store into ram: the panic of an index past the end, or the  *)
(* store.  A panicked emulator is left as it is.                           *)
StoreRam(e, address, byte) ==
    IF e.panic # NoPanic THEN e
    ELSE IF address >= RAM_SIZE THEN Panicked(e, IndexOutOfBounds)
    ELSE [e EXCEPT !.ram = WriteRam(e.ram, address, byte)]

(* BCD with the tens digit left as the value without its ones *)
BCD_tens_not_reduced(e, op) ==
    LET vx == e.v_registers[get_x(op)]
        i == e.i_register
    IN  StoreRam(StoreRam(StoreRam(e, i, vx \div 100), i + 1, vx \div 10), i + 2, vx % 10)

BCD(e, op) ==
    LET vx == e.v_registers[get_x(op)]
        i == e.i_register
        hundreds == vx \div 100
        tens == (vx \div 10) % 10
        ones == vx % 10
    IN  StoreRam(StoreRam(StoreRam(e, i, hundreds), i + 1, tens), i + 2, ones)

RECURSIVE StoreRegisters(_, _, _)
StoreRegisters(e, i, x) ==
    IF i > x \/ e.panic # NoPanic THEN e
    ELSE StoreRegisters(StoreRam(e, i + e.i_register, e.v_registers[i]), i + 1, x)

(* STORE with the range 0..x taken without its end *)
STORE_exclusive(e, op) == StoreRegisters(e, 0, get_x(op) - 1)

STORE(e, op) == StoreRegisters(e, 0, get_x(op))

RECURSIVE LoadRegisters(_, _, _)
LoadRegisters(e, i, x) ==
    IF i > x \/ e.panic # NoPanic THEN e
    ELSE IF i + e.i_register >= RAM_SIZE THEN Panicked(e, IndexOutOfBounds)
    ELSE LoadRegisters([e EXCEPT !.v_registers[i] = ReadRam(e.ram, i + e.i_register)],
                       i + 1, x)

LOAD(e, op) == LoadRegisters(e, 0, get_x(op))

(* unimplemented!(): CLS, Draw, the keyboard instructions and every word   *)
(* no arm matches.                                                         *)
Unimplemented(e) == Panicked(e, NotImplemented)

(* The match of execute_op_code, its arms in the order of the source.      *)
execute_op_code(e, op, rng) ==
    CASE op = <<0, 0, 0, 0>> -> NOP(e)
      [] op = <<0, 0, 14, 0>> -> Unimplemented(e)
      [] op = <<0, 0, 14, 14>> -> RET(e)
      [] op[1] = 1 -> JP(e, op)
      [] op[1] = 2 -> CALL(e, op)
      [] op[1] = 3 -> SKIP_eq_kk(e, op)
      [] op[1] = 4 -> SKIP_ne_kk(e, op)
      [] op[1] = 5 /\ op[4] = 0 -> SKIP_eq_vy(e, op)
      [] op[1] = 6 -> PUT_kk(e, op)
      [] op[1] = 7 -> ADD_kk(e, op)
      [] op[1] = 8 /\ op[4] = 0 -> SET_vy(e, op)
      [] op[1] = 8 /\ op[4] = 1 -> OR_vy(e, op)
      [] op[1] = 8 /\ op[4] = 2 -> AND_vy(e, op)
      [] op[1] = 8 /\ op[4] = 3 -> XOR_vy(e, op)
      [] op[1] = 8 /\ op[4] = 4 -> ADD_vy(e, op)
      [] op[1] = 8 /\ op[4] = 5 -> SUB_vy(e, op)
      [] op[1] = 8 /\ op[4] = 6 -> SHR(e, op)
      [] op[1] = 8 /\ op[4] = 7 -> SUBN_vy(e, op)
      [] op[1] = 8 /\ op[4] = 14 -> SHL(e, op)
      [] op[1] = 9 /\ op[4] = 0 -> SNE_vy(e, op)
      [] op[1] = 10 -> SET_i(e, op)
      [] op[1] = 11 -> JP_v0(e, op)
      [] op[1] = 12 -> RND(e, op, rng)
      [] op[1] = 13 -> Unimplemented(e)
      [] op[1] = 14 /\ op[3] = 9 /\ op[4] = 14 -> Unimplemented(e)
      [] op[1] = 14 /\ op[3] = 10 /\ op[4] = 1 -> Unimplemented(e)
      [] op[1] = 15 /\ op[3] = 0 /\ op[4] = 7 -> SET_vx_delay(e, op)
      [] op[1] = 15 /\ op[3] = 0 /\ op[4] = 10 -> Unimplemented(e)
      [] op[1] = 15 /\ op[3] = 1 /\ op[4] = 5 -> SET_delay(e, op)
      [] op[1] = 15 /\ op[3] = 1 /\ op[4] = 8 -> SET_sound(e, op)
      [] op[1] = 15 /\ op[3] = 1 /\ op[4] = 14 -> ADD_i(e, op)
      [] op[1] = 15 /\ op[3] = 3 /\ op[4] = 3 -> BCD(e, op)
      [] op[1] = 15 /\ op[3] = 5 /\ op[4] = 5 -> STORE(e, op)
      [] op[1] = 15 /\ op[3] = 6 /\ op[4] = 5 -> LOAD(e, op)
      [] OTHER -> Unimplemented(e)

----------------------------------------------------------------------------
(* Inputs: ROM images, instruction words, random bytes.                    *)

Word(a, b, c, d) == a * 4096 + b * 256 + c * 16 + d
HighByte(word) == word \div 256
LowByte(word) == word % 256

(* LD V0, 10; LD V1, 5; ADD V0, V1 *)
AddProgram == <<96, 10, 97, 5, 128, 20>>

(* CALL to the next word, STACK_SIZE + 1 times over *)
CallChain ==
    [k \in 1..(2 * (STACK_SIZE + 1)) |->
        LET word == Word(2, 0, 0, 0) + INITIAL_ADDRESS + 2 * ((k + 1) \div 2)
        IN  IF k % 2 = 1 THEN HighByte(word) ELSE LowByte(word)]

(* RET alone, on the empty stack *)
ReturnProgram == <<0, 238>>

(* JP 0x001 *)
JumpProgram == <<16, 1>>

Roms == {<<>>, AddProgram, CallChain, ReturnProgram, JumpProgram}

(* ADD V0, 1 followed by zeros up to a last byte at the last address of ram *)
FullImage ==
    [k \in 1..(RAM_SIZE - INITIAL_ADDRESS) |->
        IF k = 1 THEN 112 ELSE IF k = 2 THEN 1
        ELSE IF k = RAM_SIZE - INITIAL_ADDRESS THEN 238 ELSE 0]

(* one byte more than fits between INITIAL_ADDRESS and the end of ram *)
OversizeImage == FullImage \o <<1>>

LoadRoms == {<<>>, AddProgram, JumpProgram, FullImage, OversizeImage}

RngBytes == {0, 255}

(* At least one word for every arm of execute_op_code. *)
Words ==
    { Word(0, 0, 0, 0), Word(0, 0, 14, 0), Word(0, 0, 14, 14),
      Word(1, 0, 0, 1), Word(1, 15, 15, 14), Word(2, 3, 0, 0),
      Word(3, 0, 7, 15), Word(4, 0, 7, 15), Word(5, 0, 1, 0),
      Word(6, 0, 0, 10), Word(6, 1, 0, 5), Word(6, 15, 0, 1),
      Word(7, 0, 15, 15), Word(7, 1, 0, 1),
      Word(8, 0, 1, 0), Word(8, 0, 1, 1), Word(8, 0, 1, 2), Word(8, 0, 1, 3),
      Word(8, 0, 1, 4), Word(8, 0, 1, 5), Word(8, 0, 1, 6), Word(8, 0, 1, 7),
      Word(8, 0, 1, 14), Word(9, 0, 1, 0),
      Word(10, 15, 15, 14), Word(10, 1, 0, 0), Word(11, 15, 15, 15),
      Word(12, 1, 0, 15), Word(13, 0, 1, 1),
      Word(14, 0, 9, 14), Word(14, 0, 10, 1),
      Word(15, 0, 0, 7), Word(15, 0, 0, 10), Word(15, 0, 1, 5),
      Word(15, 0, 1, 8), Word(15, 0, 1, 14), Word(15, 0, 3, 3),
      Word(15, 1, 5, 5), Word(15, 1, 6, 5),
      Word(5, 0, 1, 1), Word(8, 0, 1, 8), Word(15, 0, 0, 0) }

----------------------------------------------------------------------------
(* The state main builds before it loads the ROM: the struct literal and   *)
(* the four stores that follow it.  The build profile is fixed for a run.  *)

Init ==
    /\ v_registers = [r \in 0..(V_REGISTERS_NUMBER - 1) |->
                        IF r = 0 THEN 127 ELSE IF r = 1 THEN 10 ELSE 0]
    /\ v_f_register = 0
    /\ i_register = 0
    /\ program_counter = INITIAL_ADDRESS
    /\ stack_pointer = 0
    /\ stack = [s \in 0..(STACK_SIZE - 1) |-> 0]
    /\ delay_timer_registry = 0
    /\ sound_timer_registry = 0
    /\ ram = WriteRam(WriteRam(<<>>, 0, 1), 1, 2)
    /\ panic = NoPanic
    /\ overflow_checks \in BOOLEAN
    /\ loaded = FALSE
    /\ op_code = <<>>
    /\ fetched = 0
    /\ prev = Emulator
    /\ steps = 0
    /\ jumps = 0
    /\ call_sites = <<>>
    /\ matched = <<>>
    /\ rom = <<>>
    /\ stored = <<>>
    /\ timer_set = 0
    /\ ticks = 0

(* The emulator variables take the fields of e. *)
Becomes(e) ==
    /\ v_registers' = e.v_registers
    /\ v_f_register' = e.v_f_register
    /\ i_register' = e.i_register
    /\ program_counter' = e.program_counter
    /\ stack_pointer' = e.stack_pointer
    /\ stack' = e.stack
    /\ delay_timer_registry' = e.delay_timer_registry
    /\ sound_timer_registry' = e.sound_timer_registry
    /\ ram' = e.ram
    /\ panic' = e.panic

Running == loaded /\ panic = NoPanic

(* main: load_rom_to_memory(&mut emulator, &data) *)
Load(data) ==
    /\ ~loaded /\ panic = NoPanic
    /\ LET e == load_rom_to_memory(Emulator, data)
       IN  Becomes(e) /\ loaded' = (e.panic = NoPanic)
    /\ rom' = data
    /\ UNCHANGED <<overflow_checks, op_code, fetched, prev, steps, jumps,
                   call_sites, matched, stored, timer_set, ticks>>

IsCALL(op) == op # <<>> /\ op[1] = 2
IsRET(op) == op = <<0, 0, 14, 14>>
IsJP(op) == op # <<>> /\ op[1] = 1

(* The record of the calls in progress: a CALL that returns adds its call  *)
(* site, a RET that returns takes the newest one away.                     *)
Front(sequence) == SubSeq(sequence, 1, Len(sequence) - 1)
Recorded(op, after) ==
    IF after.panic # NoPanic
    THEN call_sites' = call_sites /\ matched' = <<>>
    ELSE IF IsCALL(op)
    THEN /\ call_sites' = Append(call_sites,
                              [site |-> program_counter, pointer |-> stack_pointer])
         /\ matched' = <<>>
    ELSE IF IsRET(op) /\ call_sites # <<>>
    THEN /\ call_sites' = Front(call_sites)
         /\ matched' = <<call_sites[Len(call_sites)]>>
    ELSE call_sites' = call_sites /\ matched' = <<>>

IsSTORE(op) == op # <<>> /\ op[1] = 15 /\ op[3] = 5 /\ op[4] = 5
IsLOAD(op) == op # <<>> /\ op[1] = 15 /\ op[3] = 6 /\ op[4] = 5
IsPUT(op) == op # <<>> /\ op[1] = 6
IsSET_delay(op) == op # <<>> /\ op[1] = 15 /\ op[3] = 1 /\ op[4] = 5

(* The record of the last bulk store: what Fx55 was given, kept while the  *)
(* instructions after it only load immediates into registers.              *)
Remembered(op, after) ==
    IF after.panic # NoPanic THEN stored' = <<>>
    ELSE IF IsSTORE(op)
    THEN stored' = <<[x |-> get_x(op), i_register |-> i_register,
                      v_registers |-> v_registers]>>
    ELSE IF IsPUT(op) \/ IsLOAD(op) THEN stored' = stored
    ELSE stored' = <<>>

(* The record of the last write to the delay timer. *)
Timed(op, after) ==
    IF IsSET_delay(op) /\ after.panic = NoPanic
    THEN timer_set' = after.delay_timer_registry /\ ticks' = 0
    ELSE UNCHANGED <<timer_set, ticks>>

Executed(op, rng) ==
    LET after == execute_op_code(Emulator, op, rng)
    IN  /\ Becomes(after)
        /\ Remembered(op, after)
        /\ Timed(op, after)
        /\ UNCHANGED rom
        /\ op_code' = op
        /\ prev' = Emulator
        /\ steps' = steps + 1
        /\ jumps' = IF IsJP(op) THEN jumps + 1 ELSE jumps
        /\ Recorded(op, after)
        /\ UNCHANGED <<overflow_checks, loaded>>

(* main: an instruction word given as a literal, parsed and executed *)
Exec(word, rng) ==
    /\ Running
    /\ Executed(parse_op_code(word), rng)
    /\ UNCHANGED fetched

(* main, with the fetch it leaves commented out: the word at the program   *)
(* counter, parsed and executed                                            *)
Cycle(rng) ==
    /\ Running
    /\ LET got == get_op_code(Emulator)
       IN  IF got.panic # NoPanic
           THEN /\ panic' = got.panic
                /\ op_code' = <<>>
                /\ prev' = Emulator
                /\ matched' = <<>>
                /\ UNCHANGED <<v_registers, v_f_register, i_register, program_counter,
                               stack_pointer, stack, delay_timer_registry,
                               sound_timer_registry, ram, overflow_checks, loaded,
                               fetched, steps, jumps, call_sites, rom, stored,
                               timer_set, ticks>>
           ELSE /\ Executed(parse_op_code(got.op_code), rng)
                /\ fetched' = fetched + 1

(* One sixtieth of a second passes. main has no loop and no code that      *)
(* counts the timers down: the time that passes changes nothing of the     *)
(* emulator.                                                               *)
ClockTick ==
    /\ Running
    /\ ticks' = ticks + 1
    /\ UNCHANGED <<v_registers, v_f_register, i_register, program_counter,
                   stack_pointer, stack, delay_timer_registry,
                   sound_timer_registry, ram, panic, overflow_checks, loaded,
                   op_code, fetched, prev, steps, jumps, call_sites, matched,
                   rom, stored, timer_set>>

Next ==
    \/ \E data \in Roms : Load(data)
    \/ steps < MaxSteps /\ \E word \in Words, rng \in RngBytes : Exec(word, rng)
    \/ steps < MaxSteps /\ \E rng \in RngBytes : Cycle(rng)

Spec == Init /\ [][Next]_vars

----------------------------------------------------------------------------
(* A loaded program run from its first instruction, every instruction     *)
(* fetched at the program counter.                                         *)

NextFetch ==
    \/ \E data \in Roms : Load(data)
    \/ steps < MaxFetchSteps /\ \E rng \in RngBytes : Cycle(rng)

SpecFetch == Init /\ [][NextFetch]_vars

(* The load of images up to the size of ram and beyond, and the run of     *)
(* what was loaded.                                                        *)
NextLoad ==
    \/ \E data \in LoadRoms : Load(data)
    \/ steps < MaxLoadSteps /\ \E rng \in RngBytes : Cycle(rng)

SpecLoad == Init /\ [][NextLoad]_vars

(* The timer instructions, with the time that passes between them. *)
TimerWords ==
    { Word(6, 0, 0, 5), Word(6, 0, 0, 0), Word(6, 1, 0, 1),
      Word(15, 0, 0, 7), Word(15, 1, 0, 7), Word(15, 0, 1, 5), Word(15, 0, 1, 8) }

NextTimer ==
    \/ Load(AddProgram)
    \/ steps < MaxTimerSteps /\ \E word \in TimerWords : Exec(word, 0)
    \/ ticks < MaxTicks /\ ClockTick

SpecTimer == Init /\ [][NextTimer]_vars

(* The register arithmetic alone: loads of immediates and the five         *)
(* flag-setting instructions, on registers 0, 1, 14 and 15.                *)

AluPairs == {<<0, 1>>, <<1, 0>>, <<1, 1>>, <<14, 1>>, <<15, 0>>, <<0, 15>>}
AluKinds == {4, 5, 6, 7, 14}
AluWords ==
    { Word(8, xy[1], xy[2], n) : xy \in AluPairs, n \in AluKinds }
    \cup { Word(6, 0, 0, 1), Word(6, 0, 12, 8), Word(6, 1, 0, 0), Word(6, 1, 15, 15),
           Word(6, 1, 6, 4), Word(6, 14, 8, 1), Word(6, 15, 0, 1) }

NextAlu ==
    \/ Load(AddProgram)
    \/ steps < MaxAluSteps /\ \E word \in AluWords : Exec(word, 0)

SpecAlu == Init /\ [][NextAlu]_vars

(* Calls and returns alone, with a bounded number of jumps to move the     *)
(* call site.                                                              *)

StackRoms == {CallChain, ReturnProgram}
StackWords ==
    { Word(2, 3, 0, 0), Word(0, 0, 14, 14), Word(1, 2, 15, 0), Word(1, 15, 15, 14) }

NextStack ==
    \/ \E data \in StackRoms : Load(data)
    \/ /\ steps < MaxStackSteps
       /\ \E word \in StackWords :
            /\ IsJP(parse_op_code(word)) => jumps < MaxJumps
            /\ Exec(word, 0)

SpecStack == Init /\ [][NextStack]_vars

(* The memory instructions alone: loads of immediates and of the address  *)
(* register, the decimal digits, the bulk store and the bulk load.         *)

MemWords ==
    { Word(6, 0, 15, 15), Word(6, 0, 0, 7), Word(6, 1, 12, 7),
      Word(10, 3, 0, 0), Word(10, 1, 15, 14), Word(10, 15, 15, 14),
      Word(10, 15, 15, 15),
      Word(15, 0, 3, 3), Word(15, 1, 3, 3),
      Word(15, 0, 5, 5), Word(15, 1, 5, 5), Word(15, 15, 5, 5),
      Word(15, 0, 6, 5), Word(15, 1, 6, 5), Word(15, 15, 6, 5) }

NextMem ==
    \/ Load(AddProgram)
    \/ steps < MaxMemSteps /\ \E word \in MemWords : Exec(word, 0)

SpecMem == Init /\ [][NextMem]_vars

----------------------------------------------------------------------------
(* The claims.  op_code is the instruction last executed, prev the         *)
(* emulator it was executed on; the emulator variables are its result.     *)

IsAlu(op, n) == op # <<>> /\ op[1] = 8 /\ op[4] = n
General(r) == r \in 0..14
Flag(condition) == IF condition THEN 1 ELSE 0

\* C1: after the RET that matches a CALL executed at call site p, at any
\* nesting depth, the program counter is p + 2 and the stack pointer is the
\* one from before that CALL.
C1_CallReturnRoundTrip ==
    (IsRET(op_code) /\ panic = NoPanic /\ matched # <<>>) =>
        /\ program_counter = matched[1].site + 2
        /\ stack_pointer = matched[1].pointer

\* C2: 8xy4 on general registers x, y holding a, b leaves Vx = (a + b) mod 256
\* and VF = 1 when a + b > 255 and VF = 0 otherwise, whatever VF held before.
C2_RegisterAdd ==
    (IsAlu(op_code, 4) /\ General(get_x(op_code)) /\ General(get_y(op_code))) =>
        LET a == prev.v_registers[get_x(op_code)]
            b == prev.v_registers[get_y(op_code)]
        IN  /\ v_registers[get_x(op_code)] = (a + b) % 256
            /\ v_registers[15] = Flag(a + b > 255)

\* C3: 8xy5 on general registers leaves Vx = (a - b) mod 256 and VF = 1 exactly
\* when a >= b; 8xy7 leaves Vx = (b - a) mod 256 and VF = 1 exactly when b >= a.
C3_RegisterSubtract ==
    /\ (IsAlu(op_code, 5) /\ General(get_x(op_code)) /\ General(get_y(op_code))) =>
        LET a == prev.v_registers[get_x(op_code)]
            b == prev.v_registers[get_y(op_code)]
        IN  /\ v_registers[get_x(op_code)] = (a - b) % 256
            /\ v_registers[15] = Flag(a >= b)
    /\ (IsAlu(op_code, 7) /\ General(get_x(op_code)) /\ General(get_y(op_code))) =>
        LET a == prev.v_registers[get_x(op_code)]
            b == prev.v_registers[get_y(op_code)]
        IN  /\ v_registers[get_x(op_code)] = (b - a) % 256
            /\ v_registers[15] = Flag(b >= a)

\* C4: 8xyE on a general register x holding v leaves VF = 1 exactly when
\* v >= 128, VF = 0 otherwise, and Vx = (2 * v) mod 256.
C4_ShiftLeft ==
    (IsAlu(op_code, 14) /\ General(get_x(op_code))) =>
        LET v == prev.v_registers[get_x(op_code)]
        IN  /\ v_registers[15] = Flag(v >= 128)
            /\ v_registers[get_x(op_code)] = (2 * v) % 256

\* C5: 8xy6 on a general register x holding v leaves VF = v mod 2 and
\* Vx = v div 2, and changes no register other than Vx and VF.
C5_ShiftRight ==
    (IsAlu(op_code, 6) /\ General(get_x(op_code))) =>
        LET v == prev.v_registers[get_x(op_code)]
        IN  /\ panic = NoPanic
            /\ v_registers[15] = v % 2
            /\ v_registers[get_x(op_code)] = v \div 2
            /\ \A r \in 0..(V_REGISTERS_NUMBER - 1) :
                 r \notin {get_x(op_code), 15} => v_registers[r] = prev.v_registers[r]

\* a shift right of an odd value above 1 held in register 14
C5_Witness ==
    /\ IsAlu(op_code, 6) /\ get_x(op_code) = 14
    /\ prev.v_registers[14] = 129 /\ prev.v_registers[15] = 0
    /\ v_registers[14] = 64 /\ v_registers[15] = 1

AddProgramLoaded ==
    \A k \in 1..Len(AddProgram) : ReadRam(ram, INITIAL_ADDRESS + k - 1) = AddProgram[k]

TakenSkip(op, e) ==
    \/ op[1] = 3 /\ e.v_registers[get_x(op)] = get_kk(op)
    \/ op[1] = 4 /\ e.v_registers[get_x(op)] # get_kk(op)
    \/ op[1] = 5 /\ e.v_registers[get_x(op)] = e.v_registers[get_y(op)]
    \/ op[1] = 9 /\ e.v_registers[get_x(op)] # e.v_registers[get_y(op)]

(* The instructions that are no jump, call or return and that the source  *)
(* implements, less the skips that are taken.                              *)
Sequential(op, e) ==
    /\ op # <<>>
    /\ op[1] \in {3, 4, 5, 6, 7, 8, 9, 10, 12, 15}
    /\ ~TakenSkip(op, e)

\* C6: with 60 0A 61 05 80 14 loaded at 0x200, three fetched instructions
\* leave V0 = 15, VF = 0 and the program counter at 0x206; and every
\* instruction that completes and is no jump, call, return or taken skip
\* leaves the program counter 2 above where it was.
C6_EndToEnd ==
    /\ (AddProgramLoaded /\ fetched = 3 /\ steps = 3) =>
        /\ panic = NoPanic
        /\ v_registers[0] = 15
        /\ v_registers[15] = 0
        /\ program_counter = INITIAL_ADDRESS + 6
    /\ (Sequential(op_code, prev) /\ panic = NoPanic) =>
        program_counter = prev.program_counter + 2

\* C7: a CALL on a stack that holds 16 return addresses fails, the machine
\* stops, and the stack, the stack pointer and the program counter are those
\* from before the CALL.
C7_StackOverflow ==
    (IsCALL(op_code) /\ prev.stack_pointer = STACK_SIZE) =>
        /\ panic = IndexOutOfBounds
        /\ ~Running
        /\ stack = prev.stack
        /\ stack_pointer = prev.stack_pointer
        /\ program_counter = prev.program_counter

\* the 17th nested call
C7_Witness ==
    /\ IsCALL(op_code) /\ prev.stack_pointer = STACK_SIZE
    /\ Len(call_sites) = STACK_SIZE
    /\ panic # NoPanic

\* C8: a RET on the empty stack fails; the stack pointer stays 0, no stack
\* slot changes and the program counter is not changed.
C8_StackUnderflow ==
    (IsRET(op_code) /\ prev.stack_pointer = 0) =>
        /\ panic # NoPanic
        /\ stack_pointer = 0
        /\ stack = prev.stack
        /\ program_counter = prev.program_counter

\* C9: whenever the next instruction of a loaded program is about to be
\* fetched, the program counter is even and 0x200 <= program counter < 4096.
C9_ProgramCounter ==
    (Running /\ fetched = steps) =>
        /\ program_counter % 2 = 0
        /\ INITIAL_ADDRESS <= program_counter
        /\ program_counter < RAM_SIZE

\* C10: the stack pointer is the number of calls not yet returned from, it
\* lies in 0..16, and the slots below it hold the pushed addresses, oldest
\* first.
C10_StackPointer ==
    /\ stack_pointer = Len(call_sites)
    /\ stack_pointer \in 0..STACK_SIZE
    /\ \A k \in 1..Len(call_sites) : stack[k - 1] = call_sites[k].site

(* The instruction words of the CHIP-8 instruction set. *)
Standard(op) ==
    \/ op \in {<<0, 0, 14, 0>>, <<0, 0, 14, 14>>}
    \/ op[1] \in {1, 2, 3, 4, 6, 7, 10, 11, 12, 13}
    \/ op[1] \in {5, 9} /\ op[4] = 0
    \/ op[1] = 8 /\ op[4] \in {0, 1, 2, 3, 4, 5, 6, 7, 14}
    \/ op[1] = 14 /\ <<op[3], op[4]>> \in {<<9, 14>>, <<10, 1>>}
    \/ op[1] = 15 /\ <<op[3], op[4]>> \in
         {<<0, 7>>, <<0, 10>>, <<1, 5>>, <<1, 8>>, <<1, 14>>, <<2, 9>>, <<3, 3>>,
          <<5, 5>>, <<6, 5>>}

(* The emulator is as the last instruction found it, the panic aside. *)
StateUnchanged == [Emulator EXCEPT !.panic = NoPanic] = prev

\* C11: a word that is no CHIP-8 instruction (0x0000, 0x5xy1, 0x8xy8, 0xFx00)
\* fails as an unknown opcode, stops the machine and leaves its state
\* unchanged; a word that is a CHIP-8 instruction (00E0, Dxyn, Ex9E, ExA1,
\* Fx0A among them) does not fail as an unknown opcode.
C11_UnknownOpcode ==
    /\ (op_code # <<>> /\ ~Standard(op_code)) =>
        /\ panic = NotImplemented
        /\ ~Running
        /\ StateUnchanged
    /\ (op_code # <<>> /\ Standard(op_code)) => panic # NotImplemented

IsBCD(op) == op # <<>> /\ op[1] = 15 /\ op[3] = 3 /\ op[4] = 3

(* The last address the instruction touches lies beyond ram. *)
OutOfRange(op, e) ==
    \/ IsBCD(op) /\ e.i_register + 2 >= RAM_SIZE
    \/ (IsSTORE(op) \/ IsLOAD(op)) /\ e.i_register + get_x(op) >= RAM_SIZE

\* C12: a decimal-digit write, a bulk store or a bulk load that would touch
\* an address outside [0, 4096) fails and leaves memory and registers as it
\* found them; so does an instruction fetch beyond the end of memory.
C12_AddressRange ==
    /\ OutOfRange(op_code, prev) => (panic # NoPanic /\ StateUnchanged)
    /\ (op_code = <<>> /\ panic = IndexOutOfBounds) => StateUnchanged

(* Memory is as the last instruction found it, the cells in touched aside. *)
RamUnchangedOutside(touched) ==
    \A a \in (DOMAIN ram \cup DOMAIN prev.ram) \ touched :
        ReadRam(ram, a) = ReadRam(prev.ram, a)

\* C13: Fx33 with Vx = v and I + 2 < 4096 leaves ram[I] = v div 100,
\* ram[I+1] = (v div 10) mod 10 and ram[I+2] = v mod 10, and changes no other
\* memory cell, no register and not I.
C13_DecimalDigits ==
    (IsBCD(op_code) /\ prev.i_register + 2 < RAM_SIZE) =>
        LET v == prev.v_registers[get_x(op_code)]
            i == prev.i_register
        IN  /\ panic = NoPanic
            /\ ReadRam(ram, i) = v \div 100
            /\ ReadRam(ram, i + 1) = (v \div 10) % 10
            /\ ReadRam(ram, i + 2) = v % 10
            /\ RamUnchangedOutside({i, i + 1, i + 2})
            /\ v_registers = prev.v_registers
            /\ i_register = prev.i_register

\* the digits 2, 5, 5 of 255 written at 0x300
C13_Witness ==
    /\ IsBCD(op_code)
    /\ prev.v_registers[get_x(op_code)] = 255
    /\ prev.i_register = 768
    /\ <<ReadRam(ram, 768), ReadRam(ram, 769), ReadRam(ram, 770)>> = <<2, 5, 5>>
    /\ <<ReadRam(prev.ram, 768), ReadRam(prev.ram, 769), ReadRam(prev.ram, 770)>>
         = <<0, 0, 0>>

\* C14: no instruction changes a memory cell below 0x200.
C14_ReservedMemory ==
    op_code # <<>> =>
        \A a \in 0..(INITIAL_ADDRESS - 1) : ReadRam(ram, a) = ReadRam(prev.ram, a)

InRange(op, e) == e.i_register + get_x(op) < RAM_SIZE

\* C20: Fx55 copies V0..Vx to ram[I..I+x] and Fx65 copies ram[I..I+x] to
\* V0..Vx, for exactly the indices 0..x: I is unchanged, Fx55 changes no
\* register and no other cell, Fx65 changes no memory and no register above x,
\* and Fx65 after Fx55 with the same x and I restores the stored V0..Vx.
C20_BulkRoundTrip ==
    LET x == get_x(op_code)
        i == prev.i_register
    IN  /\ (IsSTORE(op_code) /\ InRange(op_code, prev)) =>
            /\ panic = NoPanic
            /\ \A k \in 0..x : ReadRam(ram, i + k) = prev.v_registers[k]
            /\ RamUnchangedOutside({i + k : k \in 0..x})
            /\ v_registers = prev.v_registers
            /\ i_register = i
        /\ (IsLOAD(op_code) /\ InRange(op_code, prev)) =>
            /\ panic = NoPanic
            /\ \A k \in 0..x : v_registers[k] = ReadRam(prev.ram, i + k)
            /\ \A k \in (x + 1)..(V_REGISTERS_NUMBER - 1) :
                   v_registers[k] = prev.v_registers[k]
            /\ ram = prev.ram
            /\ i_register = i
        /\ (/\ IsLOAD(op_code) /\ panic = NoPanic /\ stored # <<>>
            /\ stored[1].x = x /\ stored[1].i_register = i) =>
            \A k \in 0..x : v_registers[k] = stored[1].v_registers[k]

\* a load of V0..V1 that brings back the V0 stored before it was overwritten
C20_Witness ==
    /\ IsLOAD(op_code) /\ panic = NoPanic /\ stored # <<>>
    /\ get_x(op_code) = 1
    /\ stored[1].x = 1
    /\ stored[1].i_register = prev.i_register
    /\ prev.v_registers[0] # stored[1].v_registers[0]
    /\ v_registers[0] = stored[1].v_registers[0]
    /\ v_registers[1] = stored[1].v_registers[1]

Capacity == RAM_SIZE - INITIAL_ADDRESS

\* C15: the load of an image of at most 3584 bytes copies it byte for byte to
\* 0x200 onwards and changes nothing else of the machine; the load of a longer
\* image fails, changes no memory and nothing else, and no instruction is
\* executed after it.
C15_ProgramLoad ==
    /\ Len(rom) <= Capacity => panic # RangeEnd
    /\ (loaded /\ steps = 0 /\ fetched = 0 /\ op_code = <<>>) =>
        /\ \A k \in 1..Len(rom) : ReadRam(ram, INITIAL_ADDRESS + k - 1) = rom[k]
        /\ RamUnchangedOutside(INITIAL_ADDRESS..(INITIAL_ADDRESS + Len(rom) - 1))
        /\ [Emulator EXCEPT !.ram = prev.ram, !.panic = NoPanic] = prev
    /\ Len(rom) > Capacity =>
        /\ panic = RangeEnd
        /\ ~loaded
        /\ StateUnchanged
        /\ steps = 0 /\ fetched = 0 /\ op_code = <<>>

\* an image of exactly 3584 bytes loaded, its last byte at the last address
C15_Witness ==
    /\ loaded /\ steps = 0 /\ fetched = 0 /\ panic = NoPanic
    /\ Len(rom) = Capacity
    /\ ReadRam(ram, RAM_SIZE - 1) = 238
    /\ ReadRam(prev.ram, RAM_SIZE - 1) = 0

Remaining(set, passed) == IF passed >= set THEN 0 ELSE set - passed

\* C16: the delay timer holds the value Fx15 last gave it less the 60 Hz
\* ticks since then, and 0 once as many ticks have passed, however many
\* instructions ran between the ticks: set to 5, it is 0 after six ticks.
C16_TimerCountdown ==
    delay_timer_registry = Remaining(timer_set, ticks)

IsDRW(op) == op # <<>> /\ op[1] = 13

\* C17: Dxyn executed twice in a row with the same operands restores the
\* display, the second draw reporting in VF whether the first turned a pixel
\* on: a draw completes, leaves the emulator able to run the second draw, and
\* leaves a flag of 0 or 1 in VF.
C17_SpriteDraw ==
    IsDRW(op_code) =>
        /\ panic = NoPanic
        /\ Running
        /\ v_registers[15] \in {0, 1}

\* C18: 8xy4, 8xy5, 8xy6, 8xy7 and 8xyE with x = 15 leave in register 15 the
\* flag of the instruction (carry, no borrow, the bit shifted out), never the
\* sum, difference or shifted value.
C18_FlagWriteWins ==
    (op_code # <<>> /\ op_code[1] = 8 /\ get_x(op_code) = 15) =>
        LET a == prev.v_registers[15]
            b == prev.v_registers[get_y(op_code)]
        IN  /\ IsAlu(op_code, 4) => v_registers[15] = Flag(a + b > 255)
            /\ IsAlu(op_code, 5) => v_registers[15] = Flag(a >= b)
            /\ IsAlu(op_code, 6) => v_registers[15] = a % 2
            /\ IsAlu(op_code, 7) => v_registers[15] = Flag(b >= a)
            /\ IsAlu(op_code, 14) => v_registers[15] = a \div 128

IsADD_kk(op) == op # <<>> /\ op[1] = 7

\* C19: 7xkk on a general register x holding a completes without error, leaves
\* Vx = (a + kk) mod 256 also when a + kk > 255, and leaves VF and every other
\* register unchanged.
C19_AddImmediate ==
    (IsADD_kk(op_code) /\ General(get_x(op_code))) =>
        /\ panic = NoPanic
        /\ v_registers[get_x(op_code)] =
               (prev.v_registers[get_x(op_code)] + get_kk(op_code)) % 256
        /\ \A r \in 0..(V_REGISTERS_NUMBER - 1) :
             r # get_x(op_code) => v_registers[r] = prev.v_registers[r]

====
